---------------------------- MODULE Spec2Model ----------------------------
(***************************************************************************)
(* GenericRouter: a base class for CRUD routers.  One router instance is   *)
(* bound to a DAO, a table and an optional parent table; each operation    *)
(* takes (req, res, next), checks that the DAO implements the method,      *)
(* calls it and chains .then(res.json).catch(next) on what it returns.     *)
(*                                                                         *)
(* Two versions of the class are in the repository: the "filter" version   *)
(* (retrieveWhere and options, no body update) and the "reconcile"         *)
(* version (updateBody before create/update, no retrieveWhere/options).    *)
(***************************************************************************)
EXTENDS Integers, Sequences, FiniteSets, TLC

VARIABLES router, variant, dao, calls

vars == <<router, variant, dao, calls>>

---------------------------------------------------------------------------
(* JavaScript values.  A string is its sequence of tokens, so that the    *)
(* empty string is Str(<<>>) and JSON text can be parsed token by token.  *)

Undefined == [t |-> "undefined"]
Null      == [t |-> "null"]
Fn        == [t |-> "function"]
Str(toks) == [t |-> "string", toks |-> toks]
Arr(a)    == [t |-> "array", a |-> a]
Obj(f)    == [t |-> "object", f |-> f]

(* An object's own keys: a key that is not an own key is marked Absent,   *)
(* which no JavaScript value equals; reading it gives undefined.          *)
Absent == [t |-> "absent"]

Get(o, k) == IF k \in DOMAIN o /\ o[k] # Absent THEN o[k] ELSE Undefined

Put(o, k, v) == [o EXCEPT ![k] = v]

(* JavaScript truthiness of the values a request carries. *)
Truthy(v) ==
  /\ v # Undefined
  /\ v # Null
  /\ v # Absent
  /\ (v.t = "string" => v.toks # <<>>)

---------------------------------------------------------------------------
(* Table descriptors (ndm.Table): a name and an ordered primary key, each *)
(* column with its name and the alias (mapTo) it is exposed under.        *)

Column(name, mapTo) == [name |-> name, mapTo |-> mapTo]

Users ==
  [name |-> "Users", primaryKey |-> <<Column("userID", "userID")>>]

UsersCourses ==
  [name |-> "UsersCourses",
   primaryKey |-> <<Column("userCourseID", "userCourseID")>>]

(* A table with a two-column primary key: only the first may be used. *)
Rounds ==
  [name |-> "Rounds",
   primaryKey |-> <<Column("roundID", "roundID"), Column("userID", "userID")>>]

NoTable == [name |-> "null", primaryKey |-> <<>>]

(* constructor(dao, table, parentTable=null): the (table, parent) pairs. *)
TablePairs ==
  { <<Users, NoTable>>, <<UsersCourses, Users>>,
    <<Rounds, NoTable>>, <<UsersCourses, Rounds>> }

---------------------------------------------------------------------------
(* The DAO: an object whose keys may or may not hold the methods.         *)

FilterMethods ==
  {"create", "retrieve", "retrieveByID", "update", "delete", "replace",
   "options"}

ReconcileMethods ==
  {"create", "retrieve", "retrieveByID", "update", "delete", "replace"}

DaoWith(keys) == [m \in FilterMethods |-> IF m \in keys THEN Fn ELSE Absent]

DaoObjects ==
  { DaoWith(FilterMethods), DaoWith({}),
    DaoWith({"create", "retrieve", "update"}),
    DaoWith({"retrieveByID", "delete", "replace", "options"}) }


---------------------------------------------------------------------------
(* Errors.  err.code of an Error without a code reads undefined.          *)

Error(message) == [name |-> "Error", message |-> message]

TypeError(message) == [name |-> "TypeError", message |-> message]

NotFoundError(message) == [name |-> "NotFoundError", message |-> message]

ValidationError(message, code, field) ==
  [name |-> "ValidationError", message |-> message, code |-> code,
   field |-> field]

ErrCode(err) == IF "code" \in DOMAIN err THEN err.code ELSE "undefined"

(* What a DAO may fail with: a plain error, and ndm's condition error. *)
DaoError == Error("An error")

ConditionError ==
  [name |-> "ConditionError", message |-> "Unknown column Users.foobar",
   code |-> "CONDITION_ERROR"]

DaoErrors == {DaoError, ConditionError}

(* What a responder that raises fails with. *)
ResponderError == Error("res failed")

---------------------------------------------------------------------------
(* JSON.parse on a token sequence.  The grammar: a value is an atom (a    *)
(* quoted string, a number, null) or an object { "k" : value , ... }.     *)
(* Anything else, trailing tokens or the empty text is a SyntaxError.     *)

StringTokens ==
  {"\"$eq\"", "\"Users.name\"", "\":name\"", "\"name\"", "\"Joe Tester\""}

AtomTokens == StringTokens \cup {"null", "42"}

Fail == [ok |-> FALSE]

RECURSIVE ParseValue(_)
RECURSIVE ParseMembers(_, _)

ParseValue(s) ==
  IF s = <<>> THEN Fail
  ELSE IF Head(s) \in AtomTokens
    THEN [ok |-> TRUE,
          val |-> IF Head(s) = "null" THEN Null ELSE Str(<<Head(s)>>),
          rest |-> Tail(s)]
  ELSE IF Head(s) = "{"
    THEN IF Len(s) >= 2 /\ s[2] = "}"
           THEN [ok |-> TRUE, val |-> [t |-> "object", members |-> <<>>],
                 rest |-> SubSeq(s, 3, Len(s))]
           ELSE ParseMembers(Tail(s), <<>>)
  ELSE Fail

(* s starts at a member "k" : value, acc holds the members read so far. *)
ParseMembers(s, acc) ==
  IF Len(s) < 3 \/ s[1] \notin StringTokens \/ s[2] # ":" THEN Fail
  ELSE LET v == ParseValue(SubSeq(s, 3, Len(s)))
       IN IF ~v.ok \/ v.rest = <<>> THEN Fail
          ELSE LET all == Append(acc, <<s[1], v.val>>)
               IN IF Head(v.rest) = "}"
                    THEN [ok |-> TRUE,
                          val |-> [t |-> "object", members |-> all],
                          rest |-> Tail(v.rest)]
                  ELSE IF Head(v.rest) = ","
                    THEN ParseMembers(Tail(v.rest), all)
                  ELSE Fail

SyntaxError == [name |-> "SyntaxError", message |-> "Unexpected token"]

(* [ok, val] on success, [ok, err] when JSON.parse throws. *)
JSONParse(text) ==
  LET r == ParseValue(text.toks)
  IN IF r.ok /\ r.rest = <<>>
       THEN [ok |-> TRUE, val |-> r.val]
       ELSE [ok |-> FALSE, err |-> SyntaxError]

---------------------------------------------------------------------------
(* Requests: {body, params, query}.                                       *)

ParamKeys == {"userID", "userCourseID", "roundID"}

ParamValues == {Str(<<"42">>), Str(<<"7">>), Str(<<>>)}

(* How many route parameters one request carries at most. *)
MaxParams == 2

ParamMaps ==
  { p \in [ParamKeys -> ParamValues \cup {Absent}] :
      Cardinality({k \in ParamKeys : p[k] # Absent}) <= MaxParams }

BodyKeys == ParamKeys \cup {"email"}

EmptyObject == [k \in BodyKeys |-> Absent]

ObjectBodies ==
  { Obj(EmptyObject),
    Obj(Put(EmptyObject, "email", Str(<<"joe.tester@gmail.com">>))),
    Obj(Put(Put(EmptyObject, "userID", Str(<<"99">>)),
            "userCourseID", Str(<<"12">>))),
    Obj(Put(Put(EmptyObject, "userID", Str(<<"99">>)),
            "roundID", Str(<<"3">>))) }

ArrayBodies ==
  { Arr(<<>>),
    Arr(<<Obj(Put(EmptyObject, "userID", Str(<<"99">>)))>>) }

WhereTexts ==
  { Str(<<>>),
    Str(<<"null">>),
    Str(<<"{", "\"$eq\"", ":", "{", "\"Users.name\"", ":", "\":name\"",
          "}", "}">>),
    Str(<<"{", "\"$eq\"", ":", "{", "\"Users.name\"", ":", "\":name\"",
          "}">>),
    Str(<<"[object Object]">>) }

ParamsTexts ==
  { Str(<<>>),
    Str(<<"{", "\"name\"", ":", "\"Joe Tester\"", "}">>),
    Str(<<"{", "\"name\"", ":", "\"Joe Tester\"", ",", "}">>) }

Queries ==
  { q \in [{"where", "params"} -> WhereTexts \cup ParamsTexts \cup {Absent}] :
      /\ q["where"] \in WhereTexts \cup {Absent}
      /\ q["params"] \in ParamsTexts \cup {Absent} }

EmptyQuery == [k \in {"where", "params"} |-> Absent]

Operations == FilterMethods \cup {"retrieveWhere"}

(* The requests an operation is called with: every part the operation    *)
(* reads varies, the parts it never reads are kept small.                 *)
Requests(op) ==
  [body : CASE op \in {"create", "update"} -> ObjectBodies
            [] op = "replace" -> ArrayBodies
            [] OTHER -> {Obj(EmptyObject)},
   params : ParamMaps,
   query : IF op = "retrieveWhere" THEN Queries
           ELSE {EmptyQuery, Put(EmptyQuery, "where", Str(<<"null">>))}]

---------------------------------------------------------------------------
(* What one call does, as the sequence of what it invokes: the DAO, the   *)
(* responder (res.status, res.json), the error channel (next), and how    *)
(* the operation ends (it returns, or it throws to its caller).           *)

NextEv(err) == [ev |-> "next", err |-> err]

DaoEv(method, args) == [ev |-> "dao", method |-> method, args |-> args]

StatusEv(code, threw) == [ev |-> "status", code |-> code, threw |-> threw]

JsonEv(val, threw) == [ev |-> "json", val |-> val, threw |-> threw]

(* return;  or the end of the method: the operations return no value. *)
ReturnEv == [ev |-> "return", val |-> Undefined]

ThrowEv(err) == [ev |-> "throw", err |-> err]

(* The promise a DAO method returned, if it returned one. *)
NoPromise == [state |-> "none"]

Pending == [state |-> "pending"]

Resolved(val) == [state |-> "resolved", val |-> val]

Rejected(err) == [state |-> "rejected", err |-> err]

(* What the DAO resolves with. *)
DaoValues ==
  { Obj(Put(EmptyObject, "userID", Str(<<"1">>))), Arr(<<>>) }

(* What a DAO method does when called: it throws, or it returns a promise *)
(* that is pending, or one that is already settled and runs the callbacks *)
(* chained on it at once (as the deferred library's promises do).         *)
DaoBehaviours ==
  {[k |-> "throws", err |-> e] : e \in DaoErrors \cup {TypeError("x")}}
  \cup {[k |-> "returns", promise |-> Pending]}
  \cup {[k |-> "returns", promise |-> Resolved(v)] : v \in DaoValues}
  \cup {[k |-> "returns", promise |-> Rejected(e)] : e \in DaoErrors}

(* What the responder does: res.status returns res and res.json returns,  *)
(* or one of them throws.                                                 *)
ResBehaviours == {"ok", "statusThrows", "jsonThrows"}

StatusCreated == 201

---------------------------------------------------------------------------
(* The router's helpers.                                                   *)

(* A guard that reads the key set of the DAO in the class's first call on *)
(* the key and keeps what it found for the calls that follow.             *)
hasMethod_cached(method) ==
  LET earlier == {o \in DOMAIN calls :
                    \/ calls[o].op = method
                    \/ calls[o].op = "retrieveWhere" /\ method = "retrieve"}
  IN IF earlier = {} THEN Get(dao, method) # Undefined
     ELSE \A o \in earlier :
            ~(/\ calls[o].log[1].ev = "next"
              /\ calls[o].log[1].err.name = "NotFoundError")

(* A guard that asks whether the DAO has the key. *)
hasMethod_ownKey(method) == dao[method] # Absent

(* A guard that lets every method through. *)
hasMethod_always(method) == TRUE

hasMethod(method) == Get(dao, method) # Undefined

onNotImplemented(method) ==
  <<NextEv(NotFoundError("Method " \o method \o " not available."))>>

(* _verifyImpl: TRUE when the method is there; otherwise the caller runs  *)
(* onNotImplemented and returns.                                          *)
verifyImpl(method) == hasMethod(method)

(* A guard failure that is reported after the operation has returned. *)
NotImplemented_afterReturn(method, req) ==
  [log |-> <<ReturnEv>> \o onNotImplemented(method),
   body |-> req.body, promise |-> NoPromise]

NotImplemented(method, req) ==
  [log |-> onNotImplemented(method) \o <<ReturnEv>>,
   body |-> req.body, promise |-> NoPromise]

(* A key read off the last column of the primary key. *)
pkOf_last(table) == table.primaryKey[Len(table.primaryKey)].mapTo

pkOf(table) == table.primaryKey[1].mapTo

(* A callback that serializes the resource twice. *)
sendJson_twice(val, r) ==
  IF r = "jsonThrows"
    THEN <<JsonEv(val, TRUE), NextEv(ResponderError)>>
    ELSE <<JsonEv(val, FALSE), JsonEv(val, FALSE)>>

(* resource => res.json(resource) *)
sendJson(val, r) ==
  IF r = "jsonThrows"
    THEN <<JsonEv(val, TRUE), NextEv(ResponderError)>>
    ELSE <<JsonEv(val, FALSE)>>

(* A callback that sets the status after serializing. *)
sendCreated_late(val, r) ==
  IF r = "statusThrows"
    THEN <<StatusEv(StatusCreated, TRUE), NextEv(ResponderError)>>
    ELSE sendJson(val, r) \o <<StatusEv(StatusCreated, FALSE)>>

(* resource => res.status(201).json(resource) *)
sendCreated(val, r) ==
  IF r = "statusThrows"
    THEN <<StatusEv(StatusCreated, TRUE), NextEv(ResponderError)>>
    ELSE <<StatusEv(StatusCreated, FALSE)>> \o sendJson(val, r)

(* A chain that hands next a new error in place of the DAO's. *)
thenCatch_wrapped(created, promise, r) ==
  CASE promise.state = "resolved" ->
         IF created THEN sendCreated(promise.val, r)
         ELSE sendJson(promise.val, r)
    [] promise.state = "rejected" -> <<NextEv(Error(promise.err.message))>>
    [] OTHER -> <<>>

(* .then(onFulfilled).catch(next), run when the promise settles: a value  *)
(* goes to onFulfilled, and what that throws goes to next; an error goes  *)
(* to next.                                                               *)
thenCatch(created, promise, r) ==
  CASE promise.state = "resolved" ->
         IF created THEN sendCreated(promise.val, r)
         ELSE sendJson(promise.val, r)
    [] promise.state = "rejected" -> <<NextEv(promise.err)>>
    [] OTHER -> <<>>

(* A chain whose .catch(next) sees only the DAO's promise, not what the   *)
(* fulfilment callback throws: .then(onFulfilled, next).                  *)
callDao_thenOnly(method, args, created, body, d, r) ==
  IF d.k = "throws"
    THEN [log |-> <<DaoEv(method, args), ThrowEv(d.err)>>,
          body |-> body, promise |-> NoPromise]
    ELSE [log |-> <<DaoEv(method, args)>>
                    \o SelectSeq(thenCatch(created, d.promise, r),
                                 LAMBDA e : e.ev # "next"
                                            \/ d.promise.state = "rejected")
                    \o <<ReturnEv>>,
          body |-> body, promise |-> d.promise]

(* A call that invokes the DAO method again when its promise rejected. *)
callDao_retrying(method, args, created, body, d, r) ==
  IF d.k = "throws"
    THEN [log |-> <<DaoEv(method, args), ThrowEv(d.err)>>,
          body |-> body, promise |-> NoPromise]
  ELSE IF d.promise.state = "rejected"
    THEN [log |-> <<DaoEv(method, args), DaoEv(method, args)>>
                    \o thenCatch(created, d.promise, r) \o <<ReturnEv>>,
          body |-> body, promise |-> d.promise]
  ELSE [log |-> <<DaoEv(method, args)>>
                  \o thenCatch(created, d.promise, r) \o <<ReturnEv>>,
        body |-> body, promise |-> d.promise]

(* this.dao[method](...args).then(...).catch(next), outside any try. *)
callDao(method, args, created, body, d, r) ==
  IF d.k = "throws"
    THEN [log |-> <<DaoEv(method, args), ThrowEv(d.err)>>,
          body |-> body, promise |-> NoPromise]
    ELSE [log |-> <<DaoEv(method, args)>>
                    \o thenCatch(created, d.promise, r) \o <<ReturnEv>>,
          body |-> body, promise |-> d.promise]

(* An updateBody that copies the table's own ID without testing it. *)
updateBody_alwaysOwn(req) ==
  LET pkAlias == pkOf(router.table)
      own == Put(req.body.f, pkAlias, Get(req.params, pkAlias))
  IN IF router.parentTable = NoTable
       THEN [ok |-> TRUE, body |-> Obj(own)]
       ELSE [ok |-> TRUE,
             body |-> Obj(Put(own, pkOf(router.parentTable),
                              Get(req.params, pkOf(router.parentTable))))]

(* An updateBody that keeps the parent's ID the body came with. *)
updateBody_keepParent(req) ==
  LET pkAlias == pkOf(router.table)
      own == IF Truthy(Get(req.params, pkAlias))
               THEN Put(req.body.f, pkAlias, Get(req.params, pkAlias))
               ELSE req.body.f
  IN IF router.parentTable = NoTable
       THEN [ok |-> TRUE, body |-> Obj(own)]
     ELSE IF Get(own, pkOf(router.parentTable)) # Undefined
       THEN [ok |-> TRUE, body |-> Obj(own)]
     ELSE [ok |-> TRUE,
           body |-> Obj(Put(own, pkOf(router.parentTable),
                            Get(req.params, pkOf(router.parentTable))))]

(* An updateBody that fails when params has no ID for the parent. *)
updateBody_strict(req) ==
  LET pkAlias == pkOf(router.table)
      own == IF Truthy(Get(req.params, pkAlias))
               THEN Put(req.body.f, pkAlias, Get(req.params, pkAlias))
               ELSE req.body.f
  IN IF router.parentTable = NoTable
       THEN [ok |-> TRUE, body |-> Obj(own)]
     ELSE IF Get(req.params, pkOf(router.parentTable)) = Undefined
       THEN [ok |-> FALSE, body |-> Obj(own)]
     ELSE [ok |-> TRUE,
           body |-> Obj(Put(own, pkOf(router.parentTable),
                            Get(req.params, pkOf(router.parentTable))))]

(* updateBody(req), of the reconcile version: what it returns (ok) and    *)
(* the body it leaves in req.                                             *)
updateBody(req) ==
  LET pkAlias == pkOf(router.table)
      own == IF Truthy(Get(req.params, pkAlias))
               THEN Put(req.body.f, pkAlias, Get(req.params, pkAlias))
               ELSE req.body.f
  IN IF router.parentTable = NoTable
       THEN [ok |-> TRUE, body |-> Obj(own)]
       ELSE [ok |-> TRUE,
             body |-> Obj(Put(own, pkOf(router.parentTable),
                              Get(req.params, pkOf(router.parentTable))))]

(* if (!this.updateBody(req)) return;  in the reconcile version only. *)
bodyFor(req) ==
  IF variant = "reconcile" THEN updateBody(req)
  ELSE [ok |-> TRUE, body |-> req.body]

(* The call when updateBody returned false: it returns at once. *)
NotUpdated(upd) ==
  [log |-> <<ReturnEv>>, body |-> upd.body, promise |-> NoPromise]

---------------------------------------------------------------------------
(* The operations.  Each gives what the call does before it returns: its  *)
(* log, the body it leaves in req, and the promise it chained on.  d is   *)
(* what the DAO does when called, r what the responder does.              *)

create(req, d, r) ==
  IF ~verifyImpl("create") THEN NotImplemented("create", req)
  ELSE LET upd == bodyFor(req)
       IN IF ~upd.ok THEN NotUpdated(upd)
          ELSE callDao("create", <<upd.body>>, TRUE, upd.body, d, r)

(* A retrieve that passes the parent's ID whether or not there is a      *)
(* parent table.                                                          *)
retrieve_alwaysID(req, d, r) ==
  IF ~verifyImpl("retrieve") THEN NotImplemented("retrieve", req)
  ELSE LET parentID == IF router.parentTable # NoTable
                         THEN Get(req.params, pkOf(router.parentTable))
                         ELSE Undefined
       IN callDao("retrieve", <<parentID>>, FALSE, req.body, d, r)

retrieve(req, d, r) ==
  IF ~verifyImpl("retrieve") THEN NotImplemented("retrieve", req)
  ELSE IF router.parentTable # NoTable
    THEN LET parentID == Get(req.params, pkOf(router.parentTable))
         IN callDao("retrieve", <<parentID>>, FALSE, req.body, d, r)
    ELSE callDao("retrieve", <<>>, FALSE, req.body, d, r)

(* A retrieveByID that reports a missing ID itself. *)
retrieveByID_validating(req, d, r) ==
  IF ~verifyImpl("retrieveByID") THEN NotImplemented("retrieveByID", req)
  ELSE LET ID == Get(req.params, pkOf(router.table))
       IN IF ID = Undefined
            THEN [log |-> <<NextEv(ValidationError("ID is required.",
                                                   "VAL_ID", "ID")),
                            ReturnEv>>,
                  body |-> req.body, promise |-> NoPromise]
            ELSE callDao("retrieveByID", <<ID>>, FALSE, req.body, d, r)

retrieveByID(req, d, r) ==
  IF ~verifyImpl("retrieveByID") THEN NotImplemented("retrieveByID", req)
  ELSE LET ID == Get(req.params, pkOf(router.table))
       IN callDao("retrieveByID", <<ID>>, FALSE, req.body, d, r)

(* A report that names the wrong field. *)
jsonError_params(field, e) ==
  ValidationError("\"" \o field \o "\" does not contain valid JSON: "
                    \o e.message, "VAL_JSON", "params")

(* The error a failed JSON.parse of query[field] is reported as. *)
jsonError(field, e) ==
  ValidationError("\"" \o field \o "\" does not contain valid JSON: "
                    \o e.message, "VAL_JSON", field)

(* A read of the query that passes the text on as it is. *)
parseQuery_raw(req, field) ==
  [ok |-> TRUE, val |-> Get(req.query, field)]

(* A read of the query that parses whatever is not undefined. *)
parseQuery_defined(req, field) ==
  IF Get(req.query, field) # Undefined
    THEN JSONParse(Get(req.query, field))
    ELSE [ok |-> TRUE, val |-> Undefined]

(* if (req.query[field]) value = JSON.parse(req.query[field]) *)
parseQuery(req, field) ==
  IF Truthy(Get(req.query, field))
    THEN JSONParse(Get(req.query, field))
    ELSE [ok |-> TRUE, val |-> Undefined]

(* A retrieveWhere that reports every error the DAO throws as a           *)
(* ValidationError.                                                       *)
retrieveWhere_retagAll(req, d, r) ==
  IF ~verifyImpl("retrieve") THEN NotImplemented("retrieve", req)
  ELSE LET where == parseQuery(req, "where")
           params == parseQuery(req, "params")
       IN IF ~where.ok
            THEN [log |-> <<NextEv(jsonError("where", where.err)), ReturnEv>>,
                  body |-> req.body, promise |-> NoPromise]
          ELSE IF ~params.ok
            THEN [log |-> <<NextEv(jsonError("params", params.err)),
                            ReturnEv>>,
                  body |-> req.body, promise |-> NoPromise]
          ELSE IF d.k = "throws"
            THEN [log |-> <<DaoEv("retrieve", <<where.val, params.val>>),
                            NextEv(ValidationError(d.err.message,
                                                   ErrCode(d.err), "where")),
                            ReturnEv>>,
                  body |-> req.body, promise |-> NoPromise]
          ELSE callDao("retrieve", <<where.val, params.val>>, FALSE,
                       req.body, d, r)

(* A retrieveWhere that parses query.params before query.where. *)
retrieveWhere_paramsFirst(req, d, r) ==
  IF ~verifyImpl("retrieve") THEN NotImplemented("retrieve", req)
  ELSE LET where == parseQuery(req, "where")
           params == parseQuery(req, "params")
       IN IF ~params.ok
            THEN [log |-> <<NextEv(jsonError("params", params.err)),
                            ReturnEv>>,
                  body |-> req.body, promise |-> NoPromise]
          ELSE IF ~where.ok
            THEN [log |-> <<NextEv(jsonError("where", where.err)), ReturnEv>>,
                  body |-> req.body, promise |-> NoPromise]
          ELSE IF d.k = "throws"
            THEN [log |-> <<DaoEv("retrieve", <<where.val, params.val>>),
                            NextEv(IF ErrCode(d.err) = "CONDITION_ERROR"
                                     THEN ValidationError(d.err.message,
                                                          d.err.code, "where")
                                     ELSE d.err),
                            ReturnEv>>,
                  body |-> req.body, promise |-> NoPromise]
          ELSE callDao("retrieve", <<where.val, params.val>>, FALSE,
                       req.body, d, r)

(* A retrieveWhere that filters under the parent, as retrieve does. *)
retrieveWhere_underParent(req, d, r) ==
  IF ~verifyImpl("retrieve") THEN NotImplemented("retrieve", req)
  ELSE LET where == parseQuery(req, "where")
           params == parseQuery(req, "params")
           args == IF router.parentTable # NoTable
                     THEN <<Get(req.params, pkOf(router.parentTable)),
                            where.val, params.val>>
                     ELSE <<where.val, params.val>>
       IN IF ~where.ok
            THEN [log |-> <<NextEv(jsonError("where", where.err)), ReturnEv>>,
                  body |-> req.body, promise |-> NoPromise]
          ELSE IF ~params.ok
            THEN [log |-> <<NextEv(jsonError("params", params.err)),
                            ReturnEv>>,
                  body |-> req.body, promise |-> NoPromise]
          ELSE IF d.k = "throws"
            THEN [log |-> <<DaoEv("retrieve", args),
                            NextEv(IF ErrCode(d.err) = "CONDITION_ERROR"
                                     THEN ValidationError(d.err.message,
                                                          d.err.code, "where")
                                     ELSE d.err),
                            ReturnEv>>,
                  body |-> req.body, promise |-> NoPromise]
          ELSE callDao("retrieve", args, FALSE, req.body, d, r)

(* A retrieveWhere that parses query.params outside any try. *)
retrieveWhere_paramsUncaught(req, d, r) ==
  IF ~verifyImpl("retrieve") THEN NotImplemented("retrieve", req)
  ELSE LET where == parseQuery(req, "where")
           params == parseQuery(req, "params")
       IN IF ~where.ok
            THEN [log |-> <<NextEv(jsonError("where", where.err)), ReturnEv>>,
                  body |-> req.body, promise |-> NoPromise]
          ELSE IF ~params.ok
            THEN [log |-> <<ThrowEv(params.err)>>,
                  body |-> req.body, promise |-> NoPromise]
          ELSE IF d.k = "throws"
            THEN [log |-> <<DaoEv("retrieve", <<where.val, params.val>>),
                            NextEv(IF ErrCode(d.err) = "CONDITION_ERROR"
                                     THEN ValidationError(d.err.message,
                                                          d.err.code, "where")
                                     ELSE d.err),
                            ReturnEv>>,
                  body |-> req.body, promise |-> NoPromise]
          ELSE callDao("retrieve", <<where.val, params.val>>, FALSE,
                       req.body, d, r)

retrieveWhere(req, d, r) ==
  IF ~verifyImpl("retrieve") THEN NotImplemented("retrieve", req)
  ELSE LET where == parseQuery(req, "where")
           params == parseQuery(req, "params")
       IN IF ~where.ok
            THEN [log |-> <<NextEv(jsonError("where", where.err)), ReturnEv>>,
                  body |-> req.body, promise |-> NoPromise]
          ELSE IF ~params.ok
            THEN [log |-> <<NextEv(jsonError("params", params.err)),
                            ReturnEv>>,
                  body |-> req.body, promise |-> NoPromise]
          ELSE IF d.k = "throws"
            THEN [log |-> <<DaoEv("retrieve", <<where.val, params.val>>),
                            NextEv(IF ErrCode(d.err) = "CONDITION_ERROR"
                                     THEN ValidationError(d.err.message,
                                                          d.err.code, "where")
                                     ELSE d.err),
                            ReturnEv>>,
                  body |-> req.body, promise |-> NoPromise]
          ELSE callDao("retrieve", <<where.val, params.val>>, FALSE,
                       req.body, d, r)

update(req, d, r) ==
  IF ~verifyImpl("update") THEN NotImplemented("update", req)
  ELSE LET upd == bodyFor(req)
       IN IF ~upd.ok THEN NotUpdated(upd)
          ELSE callDao("update", <<upd.body>>, FALSE, upd.body, d, r)

delete(req, d, r) ==
  IF ~verifyImpl("delete") THEN NotImplemented("delete", req)
  ELSE LET pkMapping == pkOf(router.table)
           ID == Get(req.params, pkMapping)
       IN callDao("delete", <<[key |-> pkMapping, val |-> ID]>>, FALSE,
                  req.body, d, r)

ParentRequired == Error("Parent table is required for replace operations.")

(* A replace that passes the name of the router's own table. *)
replace_ownName(req, d, r) ==
  IF ~verifyImpl("replace") THEN NotImplemented("replace", req)
  ELSE IF router.parentTable = NoTable
    THEN [log |-> <<ThrowEv(ParentRequired)>>,
          body |-> req.body, promise |-> NoPromise]
  ELSE LET pID == Get(req.params, pkOf(router.parentTable))
       IN callDao("replace", <<router.table.name, pID, req.body>>,
                  TRUE, req.body, d, r)

(* A replace that reports the missing parent table through next. *)
replace_viaNext(req, d, r) ==
  IF ~verifyImpl("replace") THEN NotImplemented("replace", req)
  ELSE IF router.parentTable = NoTable
    THEN [log |-> <<NextEv(ParentRequired), ReturnEv>>,
          body |-> req.body, promise |-> NoPromise]
  ELSE LET pID == Get(req.params, pkOf(router.parentTable))
       IN callDao("replace", <<router.parentTable.name, pID, req.body>>,
                  TRUE, req.body, d, r)

replace(req, d, r) ==
  IF ~verifyImpl("replace") THEN NotImplemented("replace", req)
  ELSE IF router.parentTable = NoTable
    THEN [log |-> <<ThrowEv(ParentRequired)>>,
          body |-> req.body, promise |-> NoPromise]
  ELSE LET pID == Get(req.params, pkOf(router.parentTable))
       IN callDao("replace", <<router.parentTable.name, pID, req.body>>,
                  TRUE, req.body, d, r)

options(req, d, r) ==
  IF ~verifyImpl("options") THEN NotImplemented("options", req)
  ELSE callDao("options", <<>>, FALSE, req.body, d, r)

Handler(op, req, d, r) ==
  CASE op = "create" -> create(req, d, r)
    [] op = "retrieve" -> retrieve(req, d, r)
    [] op = "retrieveByID" -> retrieveByID(req, d, r)
    [] op = "retrieveWhere" -> retrieveWhere(req, d, r)
    [] op = "update" -> update(req, d, r)
    [] op = "delete" -> delete(req, d, r)
    [] op = "replace" -> replace(req, d, r)
    [] op = "options" -> options(req, d, r)

(* The operations a version of the class has. *)
OperationsOf(v) ==
  IF v = "filter" THEN Operations ELSE ReconcileMethods

---------------------------------------------------------------------------
(* The state machine.  calls[c] is a call on the router: the operation,   *)
(* the request as it was passed (req0) and as it is now (req), the log,   *)
(* the promise the call waits on, and what the DAO method threw if the    *)
(* call reached it and it threw.  overlap is the calls that were waiting   *)
(* on their promise when this call's promise settled.                     *)

NoError == [name |-> "none"]

(* What the DAO method threw in a call with this log. *)
Thrown(log, d) ==
  IF d.k = "throws" /\ \E i \in 1..Len(log) : log[i].ev = "dao"
    THEN d.err ELSE NoError

Idle ==
  [op |-> "none", req0 |-> [body |-> Obj(EmptyObject),
                            params |-> [k \in ParamKeys |-> Absent],
                            query |-> EmptyQuery],
   req |-> [body |-> Obj(EmptyObject),
            params |-> [k \in ParamKeys |-> Absent],
            query |-> EmptyQuery],
   log |-> <<>>, promise |-> NoPromise, thrown |-> NoError, overlap |-> {}]

(* new GenericRouter(dao, table, parentTable) *)
Init ==
  /\ variant \in {"filter", "reconcile"}
  /\ dao \in DaoObjects
  /\ \E tp \in TablePairs :
       router = [dao |-> "dao", table |-> tp[1], parentTable |-> tp[2]]
  /\ calls = [c \in {1} |-> Idle]

(* router[op](req, res, next), up to its return or throw. *)
Invoke(c) ==
  /\ calls[c].op = "none"
  /\ \E op \in OperationsOf(variant) :
       \E req \in Requests(op), d \in DaoBehaviours, r \in ResBehaviours :
         LET h == Handler(op, req, d, r)
         IN calls' = [calls EXCEPT ![c] =
                        [op |-> op, req0 |-> req,
                         req |-> [req EXCEPT !.body = h.body],
                         log |-> h.log, promise |-> h.promise,
                         thrown |-> Thrown(h.log, d), overlap |-> {}]]
  /\ UNCHANGED <<router, variant, dao>>

(* The calls other than c that wait on their promise. *)
InFlight(c) ==
  {o \in DOMAIN calls \ {c} : calls[o].promise.state = "pending"}

(* A settlement whose callbacks run on the responder and error channel of *)
(* another call in flight.                                                *)
Settle_crossed(c) ==
  /\ calls[c].promise.state = "pending"
  /\ \E p \in {Resolved(v) : v \in DaoValues}
               \cup {Rejected(e) : e \in DaoErrors},
        r \in ResBehaviours :
       LET cbs == thenCatch(calls[c].op \in {"create", "replace"}, p, r)
       IN calls' = [o \in DOMAIN calls |->
                      IF o = c
                        THEN [calls[o] EXCEPT
                                !.promise = p, !.overlap = InFlight(c),
                                !.log = IF InFlight(c) = {} THEN @ \o cbs
                                        ELSE @]
                      ELSE IF o \in InFlight(c)
                        THEN [calls[o] EXCEPT !.log = @ \o cbs]
                      ELSE calls[o]]
  /\ UNCHANGED <<router, variant, dao>>

(* A settlement whose callbacks drop the router's parent table. *)
Settle_rebinding(c) ==
  /\ calls[c].promise.state = "pending"
  /\ \E p \in {Resolved(v) : v \in DaoValues}
               \cup {Rejected(e) : e \in DaoErrors},
        r \in ResBehaviours :
       calls' = [calls EXCEPT
                   ![c].promise = p,
                   ![c].overlap = InFlight(c),
                   ![c].log = @ \o thenCatch(calls[c].op \in {"create",
                                                             "replace"},
                                             p, r)]
  /\ router' = [router EXCEPT !.parentTable = NoTable]
  /\ UNCHANGED <<variant, dao>>

(* The DAO's pending promise settles and the chained callbacks run. *)
Settle(c) ==
  /\ calls[c].promise.state = "pending"
  /\ \E p \in {Resolved(v) : v \in DaoValues}
               \cup {Rejected(e) : e \in DaoErrors},
        r \in ResBehaviours :
       calls' = [calls EXCEPT
                   ![c].promise = p,
                   ![c].overlap = InFlight(c),
                   ![c].log = @ \o thenCatch(calls[c].op \in {"create",
                                                             "replace"},
                                             p, r)]
  /\ UNCHANGED <<router, variant, dao>>

InvokeCall == \E c \in DOMAIN calls : Invoke(c)

SettleCall == \E c \in DOMAIN calls : Settle(c)

Next == InvokeCall \/ SettleCall

Spec == Init /\ [][Next]_vars

---------------------------------------------------------------------------
(* Two calls on one router, which may be in flight together.  Each is     *)
(* passed its own req, res and next; the request of an operation and what *)
(* the DAO does when called are drawn from a few.                         *)

ConcurrentCalls == {1, 2}

RouteParams ==
  [k \in ParamKeys |->
     CASE k = "userID" -> Str(<<"42">>)
       [] k = "userCourseID" -> Str(<<"7">>)
       [] OTHER -> Absent]

RequestOf(op) ==
  [body |-> CASE op \in {"create", "update"} ->
                   Obj(Put(Put(EmptyObject, "userID", Str(<<"99">>)),
                           "userCourseID", Str(<<"12">>)))
              [] op = "replace" ->
                   Arr(<<Obj(Put(EmptyObject, "userID", Str(<<"99">>)))>>)
              [] OTHER -> Obj(EmptyObject),
   params |-> RouteParams,
   query |-> EmptyQuery]

DaoBehavioursInFlight ==
  {[k |-> "throws", err |-> DaoError], [k |-> "returns", promise |-> Pending]}

InitConcurrent ==
  /\ variant \in {"filter", "reconcile"}
  /\ dao \in DaoObjects
  /\ \E tp \in TablePairs :
       router = [dao |-> "dao", table |-> tp[1], parentTable |-> tp[2]]
  /\ calls = [c \in ConcurrentCalls |-> Idle]

(* router[op](req, res, next), up to its return or throw, whatever the    *)
(* other call is doing.                                                   *)
InvokeInFlight(c) ==
  /\ calls[c].op = "none"
  /\ \E op \in OperationsOf(variant), d \in DaoBehavioursInFlight :
       LET req == RequestOf(op)
           h == Handler(op, req, d, "ok")
       IN calls' = [calls EXCEPT ![c] =
                      [op |-> op, req0 |-> req,
                       req |-> [req EXCEPT !.body = h.body],
                       log |-> h.log, promise |-> h.promise,
                       thrown |-> Thrown(h.log, d), overlap |-> {}]]
  /\ UNCHANGED <<router, variant, dao>>

InvokeInFlightCall == \E c \in DOMAIN calls : InvokeInFlight(c)

NextConcurrent == InvokeInFlightCall \/ SettleCall

SpecConcurrent == InitConcurrent /\ [][NextConcurrent]_vars

---------------------------------------------------------------------------
(* What the properties read off a call.                                   *)

Started(c) == calls[c].op # "none"

Events(c, kind) == SelectSeq(calls[c].log, LAMBDA e : e.ev = kind)

Count(c, kind) == Len(Events(c, kind))

(* The DAO key an operation is guarded by. *)
GuardKey(op) == IF op = "retrieveWhere" THEN "retrieve" ELSE op

LacksKey(c) == dao[GuardKey(calls[c].op)] = Absent

NotAvailable ==
  [create |-> "Method create not available.",
   retrieve |-> "Method retrieve not available.",
   retrieveByID |-> "Method retrieveByID not available.",
   update |-> "Method update not available.",
   delete |-> "Method delete not available.",
   replace |-> "Method replace not available.",
   options |-> "Method options not available."]

(* C1: when the DAO lacks the key an operation is guarded by (retrieve    *)
(* for retrieveWhere), the call invokes the error channel exactly once,   *)
(* with a NotFoundError whose message is "Method {name} not available.",  *)
(* and invokes neither the DAO nor the responder.                         *)
C1_MissingMethodNotFound ==
  \A c \in DOMAIN calls :
    (Started(c) /\ LacksKey(c)) =>
      /\ Events(c, "next") =
           <<[ev |-> "next",
              err |-> [name |-> "NotFoundError",
                       message |-> NotAvailable[GuardKey(calls[c].op)]]]>>
      /\ Count(c, "dao") = 0
      /\ Count(c, "json") = 0
      /\ Count(c, "status") = 0

C1_Witness ==
  /\ calls[1].op = "retrieveWhere"
  /\ dao["retrieve"] = Absent
  /\ dao["replace"] # Absent
  /\ Count(1, "next") = 1

(* C2: in create, retrieve, retrieveByID, update, delete, replace and     *)
(* options, when the promise the DAO returned rejects with E, the error   *)
(* channel is invoked exactly once, with E itself, and neither res.json   *)
(* nor res.status is invoked.                                             *)
C2_RejectionForwarded ==
  \A c \in DOMAIN calls :
    (calls[c].op \in FilterMethods /\ calls[c].promise.state = "rejected") =>
      /\ Events(c, "next") = <<[ev |-> "next", err |-> calls[c].promise.err]>>
      /\ Count(c, "json") = 0
      /\ Count(c, "status") = 0

C2_Witness ==
  /\ calls[1].op = "options"
  /\ calls[1].promise = [state |-> "rejected", err |-> ConditionError]
  /\ Count(1, "next") = 1

(* Whether res.status returned res each time it was invoked, as the       *)
(* responder's contract has it.                                           *)
StatusReturned(c) ==
  \A i \in 1..Len(calls[c].log) :
    calls[c].log[i].ev = "status" => ~calls[c].log[i].threw

(* C3: in the same seven operations, when the promise the DAO returned    *)
(* resolves with V (and res.status, where it is used, returns res),       *)
(* res.json is invoked exactly once, with V.                              *)
C3_ResolutionSerialized ==
  \A c \in DOMAIN calls :
    (/\ calls[c].op \in FilterMethods
     /\ calls[c].promise.state = "resolved"
     /\ StatusReturned(c)) =>
      /\ Count(c, "json") = 1
      /\ Events(c, "json")[1].val = calls[c].promise.val

C3_Witness ==
  /\ calls[1].op = "retrieve"
  /\ calls[1].promise = [state |-> "resolved", val |-> Arr(<<>>)]
  /\ Count(1, "json") = 1

(* Whether the responder threw when the call invoked it. *)
ResponderThrew(c) ==
  \E i \in 1..Len(calls[c].log) :
    calls[c].log[i].ev \in {"status", "json"} /\ calls[c].log[i].threw

(* C4 as stated: whenever the DAO's promise resolves, the error channel   *)
(* is not invoked, whatever the responder does, and no call has both      *)
(* res.json and the error channel invoked.                                *)
C4_NoErrorOnResolve ==
  \A c \in DOMAIN calls :
    /\ calls[c].promise.state = "resolved" => Count(c, "next") = 0
    /\ ~(Count(c, "json") > 0 /\ Count(c, "next") > 0)

(* C4, amended: whenever the DAO's promise resolves, the error channel is *)
(* not invoked if res.status and res.json return; if one of them throws,  *)
(* the error channel is invoked exactly once, with what it threw.         *)
C4_ErrorOnResolveOnlyFromResponder ==
  \A c \in DOMAIN calls :
    calls[c].promise.state = "resolved" =>
      IF ResponderThrew(c)
        THEN Events(c, "next") = <<[ev |-> "next", err |-> ResponderError]>>
        ELSE Count(c, "next") = 0

C4_Witness ==
  /\ calls[1].op = "create"
  /\ calls[1].promise.state = "resolved"
  /\ Count(1, "json") = 1
  /\ Events(1, "json")[1].threw
  /\ Count(1, "next") = 1

ParentRequiredMessage == "Parent table is required for replace operations."

(* Whether the call threw to its caller an Error with this message. *)
Threw(c, message) ==
  Events(c, "throw") =
    <<[ev |-> "throw", err |-> [name |-> "Error", message |-> message]]>>

(* C5 as stated: replace on a router without a parent table throws the    *)
(* usage error whatever keys the DAO has, and invokes neither the DAO nor *)
(* the error channel.                                                     *)
C5_ReplaceAlwaysThrows ==
  \A c \in DOMAIN calls :
    (calls[c].op = "replace" /\ router.parentTable = NoTable) =>
      /\ Threw(c, ParentRequiredMessage)
      /\ Count(c, "dao") = 0
      /\ Count(c, "next") = 0

(* C5, amended: replace on a router without a parent table and with a DAO *)
(* that has the replace key throws the usage error and invokes neither    *)
(* the DAO nor the error channel; with a DAO that lacks the key it does   *)
(* not throw, and reports NotFound through the error channel.             *)
C5_ReplaceThrowsBehindGuard ==
  \A c \in DOMAIN calls :
    (calls[c].op = "replace" /\ router.parentTable = NoTable) =>
      /\ Count(c, "dao") = 0
      /\ IF dao["replace"] # Absent
           THEN Threw(c, ParentRequiredMessage) /\ Count(c, "next") = 0
           ELSE /\ Count(c, "throw") = 0
                /\ Count(c, "next") = 1
                /\ Events(c, "next")[1].err.name = "NotFoundError"

C5_Witness ==
  /\ calls[1].op = "replace"
  /\ router.parentTable = NoTable
  /\ dao["replace"] # Absent
  /\ Count(1, "throw") = 1

(* The places of the events of a kind in a call's log. *)
Places(c, kind) ==
  {i \in 1..Len(calls[c].log) : calls[c].log[i].ev = kind}

(* C6: when the promise of create or replace resolves with V, res.status  *)
(* is invoked exactly once, with 201, before any res.json, and res.json   *)
(* (invoked when res.status returned) is handed V; when the promise       *)
(* rejects, res.status is not invoked.                                    *)
C6_CreatedStatusFirst ==
  \A c \in DOMAIN calls :
    calls[c].op \in {"create", "replace"} =>
      /\ calls[c].promise.state = "resolved" =>
           /\ Count(c, "status") = 1
           /\ Events(c, "status")[1].code = 201
           /\ \A i \in Places(c, "status"), j \in Places(c, "json") : i < j
           /\ StatusReturned(c) =>
                /\ Count(c, "json") = 1
                /\ Events(c, "json")[1].val = calls[c].promise.val
      /\ calls[c].promise.state = "rejected" => Count(c, "status") = 0

C6_Witness ==
  /\ calls[1].op = "replace"
  /\ calls[1].promise.state = "resolved"
  /\ Count(1, "status") = 1
  /\ Count(1, "json") = 1

(* params[alias of the first primary-key column of the table]. *)
FirstKeyParam(c, table) ==
  LET alias == table.primaryKey[1].mapTo
  IN IF calls[c].req0.params[alias] = Absent THEN Undefined
     ELSE calls[c].req0.params[alias]

HasParent == router.parentTable # NoTable

(* C7: retrieve, behind its guard, calls DAO.retrieve once: on a router   *)
(* with a parent table with the one argument params[alias of the parent's *)
(* first primary-key column], on a router without one with no argument,   *)
(* whatever params holds.                                                 *)
C7_RetrieveArguments ==
  \A c \in DOMAIN calls :
    (calls[c].op = "retrieve" /\ ~LacksKey(c)) =>
      Events(c, "dao") =
        <<[ev |-> "dao", method |-> "retrieve",
           args |-> IF HasParent
                      THEN <<FirstKeyParam(c, router.parentTable)>>
                      ELSE <<>>]>>

C7_Witness ==
  /\ calls[1].op = "retrieve"
  /\ router.parentTable = Rounds
  /\ calls[1].req0.params["roundID"] = Str(<<"42">>)
  /\ calls[1].req0.params["userID"] = Str(<<"7">>)
  /\ Count(1, "dao") = 1

C7_WitnessNoParent ==
  /\ calls[1].op = "retrieve"
  /\ ~HasParent
  /\ calls[1].req0.params["userID"] = Str(<<"42">>)
  /\ Count(1, "dao") = 1

(* C8: behind their guards, retrieveByID calls DAO.retrieveByID(id) and   *)
(* delete calls DAO.delete({[pkAlias]: id}), once, where pkAlias is the   *)
(* alias of the first primary-key column of the router's own table and id *)
(* is params[pkAlias]; neither the parent table nor a further key column  *)
(* has a part in it.                                                      *)
C8_OwnFirstKey ==
  \A c \in DOMAIN calls :
    /\ (calls[c].op = "retrieveByID" /\ ~LacksKey(c)) =>
         Events(c, "dao") =
           <<[ev |-> "dao", method |-> "retrieveByID",
              args |-> <<FirstKeyParam(c, router.table)>>]>>
    /\ (calls[c].op = "delete" /\ ~LacksKey(c)) =>
         Events(c, "dao") =
           <<[ev |-> "dao", method |-> "delete",
              args |-> <<[key |-> router.table.primaryKey[1].mapTo,
                          val |-> FirstKeyParam(c, router.table)]>>]>>

C8_Witness ==
  /\ calls[1].op = "delete"
  /\ router.table = Rounds
  /\ calls[1].req0.params["roundID"] = Str(<<"42">>)
  /\ calls[1].req0.params["userID"] = Str(<<"7">>)
  /\ Count(1, "dao") = 1

(* C9: replace on a router with a parent table, behind its guard, calls   *)
(* DAO.replace once, with the parent table's name, params[alias of the    *)
(* parent's first primary-key column] and the request body, in that       *)
(* order, and leaves the body as it was passed.                           *)
C9_ReplaceArguments ==
  \A c \in DOMAIN calls :
    (calls[c].op = "replace" /\ HasParent /\ ~LacksKey(c)) =>
      /\ Events(c, "dao") =
           <<[ev |-> "dao", method |-> "replace",
              args |-> <<router.parentTable.name,
                         FirstKeyParam(c, router.parentTable),
                         calls[c].req0.body>>]>>
      /\ calls[c].req.body = calls[c].req0.body

C9_Witness ==
  /\ calls[1].op = "replace"
  /\ router.parentTable = Users
  /\ calls[1].req0.params["userID"] = Str(<<"42">>)
  /\ calls[1].req0.body # Arr(<<>>)
  /\ Count(1, "dao") = 1

(* The texts among WhereTexts that are not JSON: an object that is not    *)
(* closed, and what an object passed for a string is read as.             *)
NotJSON ==
  { Str(<<"{", "\"$eq\"", ":", "{", "\"Users.name\"", ":", "\":name\"",
          "}">>),
    Str(<<"[object Object]">>) }

(* C10: retrieveWhere, behind its guard, with a query.where that is there *)
(* (not empty) and is not JSON, invokes the error channel exactly once,   *)
(* with a ValidationError of code VAL_JSON and field where, and invokes   *)
(* neither the DAO nor the responder.                                     *)
C10_WhereNotJSON ==
  \A c \in DOMAIN calls :
    (/\ calls[c].op = "retrieveWhere"
     /\ ~LacksKey(c)
     /\ calls[c].req0.query["where"] \in NotJSON) =>
      /\ Count(c, "next") = 1
      /\ Events(c, "next")[1].err.name = "ValidationError"
      /\ Events(c, "next")[1].err.code = "VAL_JSON"
      /\ Events(c, "next")[1].err.field = "where"
      /\ Count(c, "dao") = 0
      /\ Count(c, "json") = 0
      /\ Count(c, "status") = 0

C10_Witness ==
  /\ calls[1].op = "retrieveWhere"
  /\ dao["retrieve"] # Absent
  /\ calls[1].req0.query["where"] = Str(<<"[object Object]">>)
  /\ calls[1].req0.query["params"] # Absent
  /\ ~JSONParse(calls[1].req0.query["params"]).ok
  /\ Count(1, "next") = 1

(* The text among ParamsTexts that is not JSON: an object with a comma    *)
(* before its closing brace.                                              *)
ParamsNotJSON ==
  { Str(<<"{", "\"name\"", ":", "\"Joe Tester\"", ",", "}">>) }

(* C11: retrieveWhere, behind its guard, with a query.where that is JSON  *)
(* or is not there (absent or empty) and a query.params that is there and *)
(* is not JSON, invokes the error channel exactly once, with a            *)
(* ValidationError of code VAL_JSON and field params, and invokes neither *)
(* the DAO nor the responder.                                             *)
C11_ParamsNotJSON ==
  \A c \in DOMAIN calls :
    (/\ calls[c].op = "retrieveWhere"
     /\ ~LacksKey(c)
     /\ calls[c].req0.query["where"] \notin NotJSON
     /\ calls[c].req0.query["params"] \in ParamsNotJSON) =>
      /\ Count(c, "next") = 1
      /\ Events(c, "next")[1].err.name = "ValidationError"
      /\ Events(c, "next")[1].err.code = "VAL_JSON"
      /\ Events(c, "next")[1].err.field = "params"
      /\ Count(c, "dao") = 0
      /\ Count(c, "json") = 0
      /\ Count(c, "status") = 0

C11_Witness ==
  /\ calls[1].op = "retrieveWhere"
  /\ dao["retrieve"] # Absent
  /\ calls[1].req0.query["where"] =
       Str(<<"{", "\"$eq\"", ":", "{", "\"Users.name\"", ":", "\":name\"",
             "}", "}">>)
  /\ calls[1].req0.query["params"] \in ParamsNotJSON
  /\ Count(1, "next") = 1

(* The where and params texts that are JSON, and what they stand for. *)
WhereJSON ==
  Str(<<"{", "\"$eq\"", ":", "{", "\"Users.name\"", ":", "\":name\"",
        "}", "}">>)

WhereCondition ==
  [t |-> "object",
   members |->
     << <<"\"$eq\"",
          [t |-> "object",
           members |-> << <<"\"Users.name\"",
                            [t |-> "string", toks |-> <<"\":name\"">>]>> >>]
        >> >>]

ParamsJSON == Str(<<"{", "\"name\"", ":", "\"Joe Tester\"", "}">>)

ParamsMap ==
  [t |-> "object",
   members |-> << <<"\"name\"",
                    [t |-> "string", toks |-> <<"\"Joe Tester\"">>]>> >>]

(* C12: retrieveWhere, behind its guard, with a query.where and a         *)
(* query.params that are JSON, calls DAO.retrieve once, with the parsed   *)
(* condition and the parsed parameter map; when the promise resolves,     *)
(* res.json is invoked exactly once, with the resolved list.              *)
C12_ParsedFilterPassed ==
  \A c \in DOMAIN calls :
    (/\ calls[c].op = "retrieveWhere"
     /\ ~LacksKey(c)
     /\ calls[c].req0.query["where"] \in {WhereJSON, Str(<<"null">>)}
     /\ calls[c].req0.query["params"] = ParamsJSON) =>
      /\ Events(c, "dao") =
           <<[ev |-> "dao", method |-> "retrieve",
              args |-> <<IF calls[c].req0.query["where"] = WhereJSON
                           THEN WhereCondition ELSE [t |-> "null"],
                         ParamsMap>>]>>
      /\ calls[c].promise.state = "resolved" =>
           /\ Count(c, "json") = 1
           /\ Events(c, "json")[1].val = calls[c].promise.val
           /\ Count(c, "status") = 0

C12_Witness ==
  /\ calls[1].op = "retrieveWhere"
  /\ calls[1].req0.query["where"] = WhereJSON
  /\ calls[1].req0.query["params"] = ParamsJSON
  /\ calls[1].promise = [state |-> "resolved", val |-> Arr(<<>>)]
  /\ Count(1, "dao") = 1
  /\ Count(1, "json") = 1

(* Whether the call reported query.where as not being JSON. *)
ReportedWhere(c) ==
  \E i \in 1..Len(calls[c].log) :
    /\ calls[c].log[i].ev = "next"
    /\ calls[c].log[i].err.name = "ValidationError"
    /\ calls[c].log[i].err.code = "VAL_JSON"
    /\ calls[c].log[i].err.field = "where"

(* C13: retrieveWhere, behind its guard, with query.where absent or the   *)
(* empty string, never reports an error for where; with a query.params    *)
(* that is JSON or is not there it calls DAO.retrieve once, with an       *)
(* undefined condition, and the error channel is not invoked unless the   *)
(* DAO fails (or the responder throws).                                   *)
C13_NoWhereIsUnfiltered ==
  \A c \in DOMAIN calls :
    (/\ calls[c].op = "retrieveWhere"
     /\ ~LacksKey(c)
     /\ calls[c].req0.query["where"] \in {Absent, Str(<<>>)}) =>
      /\ ~ReportedWhere(c)
      /\ calls[c].req0.query["params"] \notin ParamsNotJSON =>
           /\ Count(c, "dao") = 1
           /\ Events(c, "dao")[1].method = "retrieve"
           /\ Events(c, "dao")[1].args[1] = [t |-> "undefined"]
           /\ (\/ calls[c].promise.state = "pending"
               \/ calls[c].promise.state = "resolved" /\ ~ResponderThrew(c))
                => Count(c, "next") = 0

C13_Witness ==
  /\ calls[1].op = "retrieveWhere"
  /\ calls[1].req0.query["where"] = Str(<<>>)
  /\ calls[1].req0.query["params"] = Absent
  /\ calls[1].promise.state = "resolved"
  /\ Count(1, "dao") = 1
  /\ Count(1, "json") = 1
  /\ Count(1, "next") = 0

(* What the DAO failed with in a call: what its method threw, or what the *)
(* promise it returned rejected with.                                     *)
DaoFailure(c) ==
  IF calls[c].thrown # [name |-> "none"] THEN calls[c].thrown
  ELSE IF calls[c].promise.state = "rejected" THEN calls[c].promise.err
  ELSE [name |-> "none"]

IsConditionError(e) == "code" \in DOMAIN e /\ e.code = "CONDITION_ERROR"

(* C14: in retrieveWhere, whenever DAO.retrieve signals a condition error *)
(* (code CONDITION_ERROR), by throwing or by rejecting its promise, the   *)
(* error channel is invoked exactly once, with a ValidationError of field *)
(* where that has the DAO error's code and message, and the DAO's error   *)
(* itself is never delivered.                                             *)
C14_ConditionErrorRetagged ==
  \A c \in DOMAIN calls :
    (calls[c].op = "retrieveWhere" /\ IsConditionError(DaoFailure(c))) =>
      Events(c, "next") =
        <<[ev |-> "next",
           err |-> [name |-> "ValidationError",
                    message |-> DaoFailure(c).message,
                    code |-> "CONDITION_ERROR",
                    field |-> "where"]]>>

(* C15: in retrieveWhere, an error of the DAO that is not a condition     *)
(* error, thrown or rejected with, is delivered to the error channel      *)
(* exactly once, as it is, and the responder is not invoked.              *)
C15_OtherErrorsForwarded ==
  \A c \in DOMAIN calls :
    (/\ calls[c].op = "retrieveWhere"
     /\ DaoFailure(c) # [name |-> "none"]
     /\ ~IsConditionError(DaoFailure(c))) =>
      /\ Events(c, "next") = <<[ev |-> "next", err |-> DaoFailure(c)]>>
      /\ Count(c, "json") = 0
      /\ Count(c, "status") = 0

C15_Witness ==
  /\ calls[1].op = "retrieveWhere"
  /\ calls[1].thrown = [name |-> "Error", message |-> "An error"]
  /\ Count(1, "dao") = 1
  /\ Count(1, "next") = 1

(* A create or update of the reconcile version that passed its guard. *)
Reconciles(c) ==
  /\ variant = "reconcile"
  /\ calls[c].op \in {"create", "update"}
  /\ ~LacksKey(c)

(* C16: in the reconcile version, create and update on a router with a    *)
(* parent table call the DAO first of all, once, with a body that holds   *)
(* params[alias of the parent's first primary-key column] under that      *)
(* alias, whatever the body held there before; req.body holds it too.     *)
C16_ParentIDFromRoute ==
  \A c \in DOMAIN calls :
    (Reconciles(c) /\ HasParent) =>
      LET alias == router.parentTable.primaryKey[1].mapTo
      IN /\ Count(c, "dao") = 1
         /\ calls[c].log[1].ev = "dao"
         /\ calls[c].log[1].args[1].t = "object"
         /\ calls[c].log[1].args[1].f[alias] =
              FirstKeyParam(c, router.parentTable)
         /\ calls[c].req.body.f[alias] = FirstKeyParam(c, router.parentTable)

C16_Witness ==
  /\ variant = "reconcile"
  /\ calls[1].op = "update"
  /\ router.parentTable = Rounds
  /\ calls[1].req0.body.f["roundID"] = Str(<<"3">>)
  /\ calls[1].req0.params["roundID"] = Str(<<"42">>)
  /\ Count(1, "dao") = 1
  /\ calls[1].log[1].args[1].f["roundID"] = Str(<<"42">>)

(* C17: in the reconcile version, whenever params has the alias of the    *)
(* table's first primary-key column, with any value, create and update    *)
(* call the DAO with a body that holds params[alias] under that alias.    *)
C17_OwnIDFromRoute ==
  \A c \in DOMAIN calls :
    LET alias == router.table.primaryKey[1].mapTo
    IN (Reconciles(c) /\ calls[c].req0.params[alias] # Absent) =>
         /\ Count(c, "dao") = 1
         /\ calls[c].log[1].ev = "dao"
         /\ calls[c].log[1].args[1].f[alias] = calls[c].req0.params[alias]

(* C18: updateBody always returns true, so that create and update of the  *)
(* reconcile version reach the DAO first of all, with nothing thrown and  *)
(* next not invoked before, and applying updateBody to the request it     *)
(* left returns true again and leaves the same body; with or without a    *)
(* parent table.                                                          *)
C18_UpdateBodyIdempotent ==
  \A c \in DOMAIN calls :
    Reconciles(c) =>
      /\ calls[c].log[1].ev = "dao"
      /\ updateBody(calls[c].req0).ok
      /\ updateBody(calls[c].req0).body = calls[c].req.body
      /\ updateBody(calls[c].req).ok
      /\ updateBody(calls[c].req).body = calls[c].req.body

C18_Witness ==
  /\ variant = "reconcile"
  /\ calls[1].op = "create"
  /\ router.table = UsersCourses
  /\ router.parentTable = Users
  /\ calls[1].req0.params["userCourseID"] = Str(<<"7">>)
  /\ calls[1].req0.params["userID"] = Absent
  /\ calls[1].req.body # calls[1].req0.body
  /\ Count(1, "dao") = 1

(* What the promise of call c settled with is delivered to call c once:   *)
(* nothing while it is pending, the value to res.json when it resolved    *)
(* and the responder did not throw, the error to next when it rejected.   *)
OwnOutcomeOnce(c) ==
  /\ calls[c].promise.state = "pending" =>
       /\ Count(c, "json") = 0
       /\ Count(c, "status") = 0
       /\ Count(c, "next") = 0
  /\ (calls[c].promise.state = "resolved" /\ ~ResponderThrew(c)) =>
       /\ Events(c, "json") =
            <<[ev |-> "json", val |-> calls[c].promise.val, threw |-> FALSE]>>
       /\ Count(c, "next") = 0
  /\ calls[c].promise.state = "rejected" =>
       /\ Events(c, "next") = <<[ev |-> "next", err |-> calls[c].promise.err]>>
       /\ Count(c, "json") = 0

(* A step in which call c is not invoked and its promise does not settle  *)
(* invokes nothing of call c.                                             *)
OthersUntouched ==
  \A c \in DOMAIN calls :
    (calls'[c].op = calls[c].op /\ calls'[c].promise = calls[c].promise) =>
      calls'[c] = calls[c]

(* C19: with two calls on one router, in whatever order they are invoked  *)
(* and their promises settle, each call's responder or error channel      *)
(* receives what that call's own promise settled with, exactly once, and  *)
(* nothing on the settlement or invocation of the other call.             *)
C19_CallsIndependent ==
  /\ [](\A c \in DOMAIN calls : OwnOutcomeOnce(c))
  /\ [][OthersUntouched]_vars

C19_Witness ==
  /\ calls[1].overlap = {2}
  /\ calls[1].promise.state = "resolved"
  /\ calls[1].promise.val = Arr(<<>>)
  /\ Events(1, "json") = <<[ev |-> "json", val |-> Arr(<<>>), threw |-> FALSE]>>
  /\ calls[2].promise.state = "rejected"
  /\ Events(2, "next") =
       <<[ev |-> "next", err |-> [name |-> "Error", message |-> "An error"]]>>
  /\ Count(2, "json") = 0

(* C20: no invocation of an operation and no settlement changes the       *)
(* router's dao, table or parentTable.                                    *)
C20_RouterFieldsKept ==
  [][/\ router'.dao = router.dao
     /\ router'.table = router.table
     /\ router'.parentTable = router.parentTable]_vars

C20_Witness ==
  /\ Count(1, "throw") = 1
  /\ calls[2].promise.state = "resolved"
  /\ Count(2, "json") = 1
  /\ \E c \in DOMAIN calls : Count(c, "next") = 1
  /\ router.parentTable # [name |-> "null", primaryKey |-> <<>>]

---------------------------------------------------------------------------
(* A DAO whose keys change between the calls on the router: a key is      *)
(* assigned a function, something that is not a function, null or         *)
(* undefined, or is deleted.  Two calls, each run to its end before the   *)
(* next step.                                                             *)

SlotValues == {Fn, Null, Str(<<"42">>), Undefined}

MutableKeys == {"retrieve", "delete"}

(* dao[k] = v *)
AssignKey ==
  /\ \E k \in MutableKeys, v \in SlotValues :
       /\ dao[k] # v
       /\ dao' = [dao EXCEPT ![k] = v]
  /\ UNCHANGED <<router, variant, calls>>

(* delete dao[k] *)
DeleteKey ==
  /\ \E k \in MutableKeys :
       /\ dao[k] # Absent
       /\ dao' = [dao EXCEPT ![k] = Absent]
  /\ UNCHANGED <<router, variant, calls>>

NotAFunction == TypeError("this.dao[method] is not a function")

(* this.dao[method](...) on what the key holds now: a function is called  *)
(* and returns a resolved promise; calling anything else throws a         *)
(* TypeError and no DAO method runs.                                      *)
CallSlot(op, req) ==
  LET slot == dao[GuardKey(op)]
      d == IF slot = Fn
             THEN [k |-> "returns", promise |-> Resolved(Arr(<<>>))]
             ELSE [k |-> "throws", err |-> NotAFunction]
      h == Handler(op, req, d, "ok")
  IN IF slot = Fn THEN h
     ELSE [h EXCEPT !.log = SelectSeq(h.log, LAMBDA e : e.ev # "dao")]

(* router[op](req, res, next) on the DAO as it is now. *)
InvokeOnDao(c) ==
  /\ calls[c].op = "none"
  /\ \E op \in OperationsOf(variant) :
       LET req == RequestOf(op)
           h == CallSlot(op, req)
       IN calls' = [calls EXCEPT ![c] =
                      [op |-> op, req0 |-> req,
                       req |-> [req EXCEPT !.body = h.body],
                       log |-> h.log, promise |-> h.promise,
                       thrown |-> NoError, overlap |-> {}]]
  /\ UNCHANGED <<router, variant, dao>>

InvokeOnDaoCall == \E c \in DOMAIN calls : InvokeOnDao(c)

NextCapabilities == InvokeOnDaoCall \/ AssignKey \/ DeleteKey

SpecCapabilities == InitConcurrent /\ [][NextCapabilities]_vars

(* C21 as stated: hasMethod(name) is true exactly when the DAO has the    *)
(* key name, whatever is stored under it (undefined included), and false  *)
(* exactly when the key is missing.                                       *)
C21_HasMethodIsKeyPresence ==
  \A name \in DOMAIN dao :
    hasMethod(name) = (dao[name] # [t |-> "absent"])

(* C21: hasMethod(name) is true exactly when the DAO holds something      *)
(* other than undefined under name (a function, a non-function or null),  *)
(* and false when the key is missing or holds undefined.                  *)
C21_HasMethodIsDefinedValue ==
  \A name \in DOMAIN dao :
    hasMethod(name) =
      (dao[name] \notin {[t |-> "absent"], [t |-> "undefined"]})

C21_Witness ==
  /\ dao["retrieve"] = [t |-> "undefined"]
  /\ dao["delete"] = [t |-> "null"]
  /\ calls[1].op = "retrieve"
  /\ Count(1, "next") = 1
  /\ calls[1].log[1].err.name = "NotFoundError"
  /\ calls[2].op = "delete"
  /\ Count(2, "throw") = 1
  /\ Count(2, "next") = 0

(* What a step that invokes call c leaves in its log. *)
Invoked(c) == calls[c].op = "none" /\ calls'[c].op # "none"

(* C22: each call is guarded by the keys the DAO has at that call: when   *)
(* the operation's key is missing at the call, whatever it was before,    *)
(* next gets the NotFoundError and no DAO method is called; when it holds *)
(* a function at the call, the DAO method is called once and next gets    *)
(* no NotFoundError.                                                      *)
C22_GuardAtCallTime ==
  [][\A c \in DOMAIN calls :
       Invoked(c) =>
         LET op == calls'[c].op
             key == IF op = "retrieveWhere" THEN "retrieve" ELSE op
             log == calls'[c].log
             daoEvs == SelectSeq(log, LAMBDA e : e.ev = "dao")
             nextEvs == SelectSeq(log, LAMBDA e : e.ev = "next")
         IN /\ dao[key] = [t |-> "absent"] =>
                 /\ daoEvs = <<>>
                 /\ nextEvs =
                      <<[ev |-> "next",
                         err |-> [name |-> "NotFoundError",
                                  message |-> NotAvailable[key]]]>>
            /\ (/\ dao[key] = [t |-> "function"]
                /\ (op = "replace" => HasParent)) =>
                 /\ Len(daoEvs) = 1
                 /\ daoEvs[1].method = key
                 /\ nextEvs = <<>>]_vars

C22_Witness ==
  /\ calls[1].op = "delete"
  /\ calls[2].op = "delete"
  /\ Count(1, "next") = 1
  /\ calls[1].log[1].err.name = "NotFoundError"
  /\ Count(1, "dao") = 0
  /\ Count(2, "dao") = 1
  /\ Count(2, "next") = 0

(* The table whose first primary-key alias an operation reads its         *)
(* identifier under.                                                      *)
IdentifierTable(op) ==
  IF op \in {"retrieve", "replace"} THEN router.parentTable ELSE router.table

(* Where the identifier stands among the arguments of the DAO method. *)
IdentifierOf(op, args) ==
  CASE op = "replace" -> args[2]
    [] op = "delete" -> args[1].val
    [] OTHER -> args[1]

(* C23: retrieve and replace on a router with a parent table, and         *)
(* retrieveByID and delete, behind their guard, when params lacks the     *)
(* identifier's key: the DAO method is called first of all, once, with    *)
(* undefined as the identifier, and while its promise is pending next is  *)
(* not invoked and nothing is thrown.                                     *)
C23_AbsentIdentifierForwarded ==
  \A c \in DOMAIN calls :
    (/\ calls[c].op \in {"retrieve", "retrieveByID", "delete", "replace"}
     /\ ~LacksKey(c)
     /\ calls[c].op \in {"retrieve", "replace"} => HasParent
     /\ calls[c].req0.params[
          IdentifierTable(calls[c].op).primaryKey[1].mapTo] =
            [t |-> "absent"]) =>
      /\ Count(c, "dao") = 1
      /\ calls[c].log[1].ev = "dao"
      /\ IdentifierOf(calls[c].op, calls[c].log[1].args) =
           [t |-> "undefined"]
      /\ calls[c].promise.state = "pending" =>
           (Count(c, "next") = 0 /\ Count(c, "throw") = 0)

C23_Witness ==
  /\ calls[1].op = "retrieveByID"
  /\ router.table = Users
  /\ calls[1].req0.params["userID"] = [t |-> "absent"]
  /\ calls[1].req0.params["userCourseID"] = Str(<<"7">>)
  /\ Count(1, "dao") = 1
  /\ calls[1].promise.state = "resolved"
  /\ Count(1, "json") = 1

(* C24: in create, retrieve, retrieveByID, update, delete, replace and    *)
(* options, whatever the DAO fails with, thrown by the DAO method or      *)
(* rejected by its promise, is delivered to next exactly once, as it is,  *)
(* and the operation throws nothing to its caller.                        *)
C24_DaoFailureForwarded ==
  \A c \in DOMAIN calls :
    (calls[c].op \in FilterMethods /\ DaoFailure(c) # [name |-> "none"]) =>
      /\ Events(c, "next") = <<[ev |-> "next", err |-> DaoFailure(c)]>>
      /\ Count(c, "throw") = 0

(* C25: retrieveWhere returns a thenable that rejects with the call's     *)
(* error: whenever a retrieveWhere that returned has reported an error    *)
(* (a ValidationError, or the error of the DAO), what it returned is a    *)
(* promise rejected with that error.                                      *)
C25_ReturnsRejectingThenable ==
  \A c \in DOMAIN calls :
    (/\ calls[c].op = "retrieveWhere"
     /\ Count(c, "return") = 1
     /\ Count(c, "next") = 1) =>
      LET val == Events(c, "return")[1].val
      IN /\ "state" \in DOMAIN val
         /\ val.state = "rejected"
         /\ val.err = Events(c, "next")[1].err

(* C26: in one call of any operation the DAO is invoked at most once, and *)
(* then it is the operation's own method; and once next has been invoked  *)
(* neither the DAO nor the responder is invoked in that call.             *)
C26_NoRetries ==
  \A c \in DOMAIN calls :
    /\ Count(c, "dao") <= 1
    /\ Count(c, "dao") = 1 =>
         Events(c, "dao")[1].method =
           (IF calls[c].op = "retrieveWhere" THEN "retrieve" ELSE calls[c].op)
    /\ \A i, j \in 1..Len(calls[c].log) :
         (i < j /\ calls[c].log[i].ev = "next") =>
           calls[c].log[j].ev \notin {"dao", "json", "status"}

C26_Witness ==
  /\ calls[1].op = "retrieveWhere"
  /\ calls[1].promise.state = "rejected"
  /\ Count(1, "dao") = 1
  /\ Count(1, "next") = 1
  /\ calls[1].log[Len(calls[1].log)].ev = "next"

(* Whether the error is one the router makes before it calls the DAO:    *)
(* the NotFoundError of the guard or the ValidationError of a parse.      *)
FromRouter(err) ==
  \/ err.name = "NotFoundError"
  \/ err.name = "ValidationError" /\ err.code = "VAL_JSON"

(* C27: in a call that returned, the NotFoundError of the guard, the      *)
(* ValidationError of either JSON parse and the DAO call come before the  *)
(* return; after the return come only res.status, res.json and next, on   *)
(* a promise that has settled.                                            *)
C27_SuspendsOnlyAtDao ==
  \A c \in DOMAIN calls :
    \A p \in Places(c, "return") :
      /\ \A i \in Places(c, "dao") : i < p
      /\ \A i \in Places(c, "next") :
           FromRouter(calls[c].log[i].err) => i < p
      /\ \A i \in 1..Len(calls[c].log) :
           i > p =>
             /\ calls[c].log[i].ev \in {"status", "json", "next"}
             /\ calls[c].promise.state \in {"resolved", "rejected"}
      /\ (LacksKey(c) \/ calls[c].promise.state = "none") =>
           p = Len(calls[c].log)

C27_Witness ==
  /\ calls[1].op = "retrieveWhere"
  /\ Len(calls[1].log) = 3
  /\ calls[1].log[1].ev = "dao"
  /\ calls[1].log[2].ev = "return"
  /\ calls[1].log[3].ev = "json"
  /\ calls[1].promise.state = "resolved"

(* C28: retrieveWhere checks the guard, then query.where, then            *)
(* query.params, and stops at the first that fails: with both texts not   *)
(* JSON, behind the guard, next is invoked once, with a ValidationError   *)
(* of field where; with the DAO lacking retrieve, next is invoked once,   *)
(* with the NotFoundError, whatever the two texts are; the DAO is called  *)
(* in neither case.                                                       *)
C28_FirstFailureEnds ==
  \A c \in DOMAIN calls :
    calls[c].op = "retrieveWhere" =>
      /\ (/\ ~LacksKey(c)
          /\ calls[c].req0.query["where"] \in NotJSON
          /\ calls[c].req0.query["params"] \in ParamsNotJSON) =>
           /\ calls[c].log =
                <<[ev |-> "next", err |-> Events(c, "next")[1].err],
                  [ev |-> "return", val |-> [t |-> "undefined"]]>>
           /\ calls[c].log[1].err.name = "ValidationError"
           /\ calls[c].log[1].err.field = "where"
      /\ LacksKey(c) =>
           calls[c].log =
             <<[ev |-> "next",
                err |-> [name |-> "NotFoundError",
                         message |-> "Method retrieve not available."]],
               [ev |-> "return", val |-> [t |-> "undefined"]]>>

C28_Witness ==
  /\ calls[1].op = "retrieveWhere"
  /\ dao["retrieve"] # Absent
  /\ calls[1].req0.query["where"] \in NotJSON
  /\ calls[1].req0.query["where"] # Str(<<"[object Object]">>)
  /\ calls[1].req0.query["params"] \in ParamsNotJSON
  /\ Len(calls[1].log) = 2
  /\ calls[1].log[1].err.field = "where"

(* C29: in the reconcile version, create and update on a router without  *)
(* a parent table, with params lacking the alias of the table's first     *)
(* primary-key column, leave req.body as it was and call the DAO with     *)
(* that body; and in both versions no operation changes req.params or     *)
(* req.query.                                                             *)
C29_BodyLeftAlone ==
  \A c \in DOMAIN calls :
    /\ (/\ Reconciles(c)
        /\ ~HasParent
        /\ calls[c].req0.params[router.table.primaryKey[1].mapTo] =
             [t |-> "absent"]) =>
         /\ calls[c].req.body = calls[c].req0.body
         /\ Count(c, "dao") = 1
         /\ Events(c, "dao")[1].args = <<calls[c].req0.body>>
    /\ Started(c) =>
         /\ calls[c].req.params = calls[c].req0.params
         /\ calls[c].req.query = calls[c].req0.query

C29_Witness ==
  /\ variant = "reconcile"
  /\ calls[1].op = "update"
  /\ router.table = Users
  /\ router.parentTable = [name |-> "null", primaryKey |-> <<>>]
  /\ calls[1].req0.params["userID"] = [t |-> "absent"]
  /\ calls[1].req0.params["userCourseID"] = Str(<<"7">>)
  /\ calls[1].req0.body.f["userID"] = Str(<<"99">>)
  /\ Count(1, "dao") = 1
  /\ calls[1].req.body.f["userID"] = Str(<<"99">>)

(* C30: retrieveWhere on a router with a parent table, with the parent's  *)
(* identifier in params, behind its guard and with texts that parse,      *)
(* calls DAO.retrieve once with two arguments, neither of them the        *)
(* parent's identifier.                                                   *)
C30_FilterIgnoresParent ==
  \A c \in DOMAIN calls :
    (/\ calls[c].op = "retrieveWhere"
     /\ ~LacksKey(c)
     /\ HasParent
     /\ calls[c].req0.params[router.parentTable.primaryKey[1].mapTo] #
          [t |-> "absent"]
     /\ calls[c].req0.query["where"] \notin NotJSON
     /\ calls[c].req0.query["params"] \notin ParamsNotJSON) =>
      /\ Count(c, "dao") = 1
      /\ Events(c, "dao")[1].method = "retrieve"
      /\ Len(Events(c, "dao")[1].args) = 2
      /\ \A i \in 1..2 :
           Events(c, "dao")[1].args[i] #
             calls[c].req0.params[router.parentTable.primaryKey[1].mapTo]

C30_Witness ==
  /\ calls[1].op = "retrieveWhere"
  /\ router.parentTable = Users
  /\ calls[1].req0.params["userID"] = Str(<<"42">>)
  /\ calls[1].req0.query["where"] = WhereJSON
  /\ calls[1].req0.query["params"] = [t |-> "absent"]
  /\ Count(1, "dao") = 1
  /\ Count(1, "json") = 1

=============================================================================
